---------------------------- MODULE Spec2Model ----------------------------
(***************************************************************************)
(* Warehouse Pallet Position Calculator (src/app.py).                      *)
(*                                                                         *)
(* Three specifications over one set of variables:                         *)
(*   Spec          calls of assign_pallets (app.py 268-324) by a caller    *)
(*                 that may reorder its item list between two calls;       *)
(*   SpecScript    top-to-bottom runs of the Streamlit script              *)
(*                 (app.py 67-324), one run per user interaction;          *)
(*   SpecConfigure the Pallet Configurator of spec.md 4.1, which has no    *)
(*                 code in src/app.py.                                     *)
(*                                                                         *)
(* Lengths and weights are floats in the program.  The model counts        *)
(* lengths in tenths of an inch (the script's defaults are 0.5, 0.6, 0.8,  *)
(* 1.5 inches) and weights in lbs; In(n) is n inches.  On these values <=  *)
(* and the subtraction of the clearance are exact in floats too.           *)
(***************************************************************************)
EXTENDS Integers, Sequences, FiniteSets

VARIABLES
    \* ---- the caller's arguments of assign_pallets
    fixed_length,       \* app.py 76 / parameter, 268
    position_types,     \* the caller's list object, passed by reference
    items,              \* the caller's list object, passed by reference
    \* ---- locals of assign_pallets
    pc,                 \* "idle" | "loop" : where the function is
    assignments,        \* 283: position key -> count
    unassigned_items,   \* 284
    item_assignments,   \* 285
    sorted_positions,   \* 289
    idx,                \* 292: 1-based index of the next item of `for item in items`
    item,               \* 292: loop variable
    assigned,           \* 293
    position,           \* 296: inner loop variable, as left by the scan
    position_key,       \* 298
    \* ---- observation of the calls
    entry,              \* the arguments as they were when the running call began
    placements,         \* per processed item of the running call: item, assigned, position
    returns,            \* what each finished call was given and what it returned
    \* ---- the script (SpecScript)
    script,             \* the run of the script: position, namespace, widgets, outcome
    session,            \* st.session_state
    \* ---- the configurator (SpecConfigure)
    cfg                 \* one configure() call: inputs, plan, pallets emitted

assignVars == <<fixed_length, position_types, items, pc, assignments,
                unassigned_items, item_assignments, sorted_positions, idx, item,
                assigned, position, position_key, entry, placements, returns>>
vars == <<assignVars, script, session, cfg>>

-----------------------------------------------------------------------------
(* Bounds and input domains *)

MaxPositions == 2       \* longest catalog
MaxItems == 2           \* longest item list

\* n inches, in the model's unit of length
In(n) == n * 10

HeightClearance == In(4)    \* the literal 4 of app.py 303

SeqsUpTo(S, n) == UNION {[1..k -> S] : k \in 0..n}

Range(s) == {s[k] : k \in DOMAIN s}

PositionType(aisle, level, max_height, width_capacity, weight_capacity) ==
    [aisle |-> aisle, level |-> level, max_height |-> max_height,
     width_capacity |-> width_capacity, weight_capacity |-> weight_capacity]

Item(sku, length, width, height, weight) ==
    [sku |-> sku, length |-> length, width |-> width, height |-> height,
     weight |-> weight]

\* Aisle and level are free text (st.text_input, 119-121).
PositionDomain ==
    { PositionType("A", "1", In(50), In(40), 500),
      PositionType("A", "1 Level 1", In(50), In(40), 1000),
      PositionType("A Level 1", "1", In(60), In(40), 1000),
      PositionType("A", "1", In(60), In(48), 1000),
      PositionType("B", "2", In(60), In(40), 500) }

ItemDomain ==
    { Item("SKU001", In(48), In(40), In(46), 500),      \* on the boundary of every constraint
      Item("SKU002", In(48), In(40), In(47), 500),      \* one inch too tall for a 50 position
      Item("SKU001", In(48), In(40), In(46), 1000),     \* needs weight capacity 1000
      Item("SKU003", In(49), In(40), In(46), 500),      \* longer than fixed_length
      Item("SKU004", In(48), In(44), In(56), 500) }     \* needs width 48 and height 60

FixedLengths == {In(48)}

\* Unbound loop variables (before the first iteration of a call).
NoItem == Item("", 0, 0, 0, 0)
NoPosition == PositionType("", "", 0, 0, 0)

-----------------------------------------------------------------------------
(* assign_pallets: pure parts *)

\* f"Aisle {position.aisle} Level {position.level}"
PositionKey(p) == "Aisle " \o p.aisle \o " Level " \o p.level

\* The four constraints of the `if` at 301-304.
FitsStrictHeight(it, p, fl) ==
    /\ it.length <= fl
    /\ it.width <= p.width_capacity
    /\ it.height < p.max_height - HeightClearance
    /\ it.weight <= p.weight_capacity

Fits(it, p, fl) ==
    /\ it.length <= fl
    /\ it.width <= p.width_capacity
    /\ it.height <= p.max_height - HeightClearance
    /\ it.weight <= p.weight_capacity

\* sorted(position_types, key=lambda p: p.max_height): ascending and stable.
\* InsertStable puts p after every element whose key is <= p's key.
RECURSIVE InsertStable(_, _)
InsertStable(s, p) ==
    IF s = <<>> THEN <<p>>
    ELSE IF s[Len(s)].max_height <= p.max_height THEN Append(s, p)
    ELSE Append(InsertStable(SubSeq(s, 1, Len(s) - 1), p), s[Len(s)])

RECURSIVE InsertBeforeEqual(_, _)
InsertBeforeEqual(s, p) ==
    IF s = <<>> THEN <<p>>
    ELSE IF s[Len(s)].max_height < p.max_height THEN Append(s, p)
    ELSE Append(InsertBeforeEqual(SubSeq(s, 1, Len(s) - 1), p), s[Len(s)])

RECURSIVE SortTiesReversed(_)
SortTiesReversed(ps) ==
    IF ps = <<>> THEN <<>>
    ELSE InsertBeforeEqual(SortTiesReversed(SubSeq(ps, 1, Len(ps) - 1)), ps[Len(ps)])

Unsorted(ps) == ps

RECURSIVE SortedByMaxHeight(_)
SortedByMaxHeight(ps) ==
    IF ps = <<>> THEN <<>>
    ELSE InsertStable(SortedByMaxHeight(SubSeq(ps, 1, Len(ps) - 1)), ps[Len(ps)])

\* The inner `for position in sorted_positions` with its `break`: the index of
\* the first position from `from` on that passes the `if`, 0 when none does.
RECURSIVE FirstFit(_, _, _, _)
FirstFit(it, sorted, fl, from) ==
    IF from > Len(sorted) THEN 0
    ELSE IF Fits(it, sorted[from], fl) THEN from
    ELSE FirstFit(it, sorted, fl, from + 1)

EmptyCounts == [k \in {} |-> 0]

\* 307-309
Increment(counts, key) ==
    [k \in DOMAIN counts \cup {key} |->
        IF k = key
        THEN (IF key \in DOMAIN counts THEN counts[key] ELSE 0) + 1
        ELSE counts[k]]

\* assignments.get(position_key, 0), 244
CountAt(counts, key) == IF key \in DOMAIN counts THEN counts[key] ELSE 0

\* The outer loop goes on to the next item whether or not this one was assigned.
StopAtUnassigned(i, wasAssigned, n) == IF wasAssigned THEN i + 1 ELSE n + 1

NextIndex(i, wasAssigned, n) == i + 1

-----------------------------------------------------------------------------
(* Idle values of the parts a specification does not run *)

ScriptIdle == [at |-> "off"]
SessionIdle == [k \in {} |-> <<>>]
CfgIdle == [at |-> "off"]

-----------------------------------------------------------------------------
(* Spec: calls of assign_pallets *)

Init ==
    /\ fixed_length \in FixedLengths
    /\ position_types \in SeqsUpTo(PositionDomain, MaxPositions)
    /\ items \in SeqsUpTo(ItemDomain, MaxItems)
    /\ pc = "idle"
    /\ assignments = EmptyCounts
    /\ unassigned_items = <<>>
    /\ item_assignments = <<>>
    /\ sorted_positions = <<>>
    /\ idx = 1
    /\ item = NoItem
    /\ assigned = FALSE
    /\ position = NoPosition
    /\ position_key = ""
    /\ entry = [fixed_length |-> fixed_length, position_types |-> position_types,
                items |-> items]
    /\ placements = <<>>
    /\ returns = <<>>
    /\ script = ScriptIdle
    /\ session = SessionIdle
    /\ cfg = CfgIdle

\* A call that keeps the counts of the call before it (an accumulator that
\* outlives the call).
CallKeepingCounts ==
    /\ pc = "idle"
    /\ Len(returns) < 2
    /\ pc' = "loop"
    /\ unassigned_items' = <<>>
    /\ item_assignments' = <<>>
    /\ sorted_positions' = SortedByMaxHeight(position_types)
    /\ idx' = 1
    /\ item' = NoItem
    /\ assigned' = FALSE
    /\ position' = NoPosition
    /\ position_key' = ""
    /\ entry' = [fixed_length |-> fixed_length, position_types |-> position_types,
                 items |-> items]
    /\ placements' = <<>>
    /\ UNCHANGED <<fixed_length, position_types, items, assignments, returns,
                   script, session, cfg>>

\* 268-289: entry of assign_pallets; the caller makes at most two calls.
Call ==
    /\ pc = "idle"
    /\ Len(returns) < 2
    /\ pc' = "loop"
    /\ assignments' = EmptyCounts
    /\ unassigned_items' = <<>>
    /\ item_assignments' = <<>>
    /\ sorted_positions' = SortedByMaxHeight(position_types)
    /\ idx' = 1
    /\ item' = NoItem
    /\ assigned' = FALSE
    /\ position' = NoPosition
    /\ position_key' = ""
    /\ entry' = [fixed_length |-> fixed_length, position_types |-> position_types,
                 items |-> items]
    /\ placements' = <<>>
    /\ UNCHANGED <<fixed_length, position_types, items, returns, script, session, cfg>>

\* 292-322: one iteration of `for item in items`.
ProcessItem ==
    /\ pc = "loop"
    /\ idx <= Len(items)
    /\ LET it == items[idx]
           n == Len(sorted_positions)
           j == FirstFit(it, sorted_positions, fixed_length, 1)
           \* the inner loop variable is left at the match, or at the last
           \* position tried, or untouched when the list is empty
           pos == IF j > 0 THEN sorted_positions[j]
                  ELSE IF n > 0 THEN sorted_positions[n] ELSE position
           key == IF j > 0 \/ n > 0 THEN PositionKey(pos) ELSE position_key
       IN
       /\ item' = it
       /\ assigned' = (j > 0)
       /\ position' = pos
       /\ position_key' = key
       /\ IF j > 0
          THEN /\ assignments' = Increment(assignments, key)
               /\ item_assignments' =
                      Append(item_assignments, [sku |-> it.sku, assigned_to |-> key])
               /\ UNCHANGED unassigned_items
          ELSE /\ unassigned_items' = Append(unassigned_items, it.sku)
               /\ UNCHANGED <<assignments, item_assignments>>
       /\ placements' =
              Append(placements, [item |-> it, assigned |-> (j > 0), position |-> pos])
       /\ idx' = NextIndex(idx, j > 0, Len(items))
    /\ UNCHANGED <<fixed_length, position_types, items, pc, sorted_positions, entry,
                   returns, script, session, cfg>>

\* 324: return assignments, unassigned_items, item_assignments
Return ==
    /\ pc = "loop"
    /\ idx > Len(items)
    /\ pc' = "idle"
    /\ returns' = Append(returns,
           [fixed_length |-> fixed_length,
            position_types |-> position_types,
            items |-> items,
            given |-> entry,
            assignments |-> assignments,
            unassigned_items |-> unassigned_items,
            item_assignments |-> item_assignments,
            placements |-> placements])
    /\ UNCHANGED <<fixed_length, position_types, items, assignments, unassigned_items,
                   item_assignments, sorted_positions, idx, item, assigned, position,
                   position_key, entry, placements, script, session, cfg>>

\* Between two calls the caller may hand over the same items in another order
\* (the item list is replaced by the form's list at 211).
ReorderItems ==
    /\ pc = "idle"
    /\ Len(returns) = 1
    /\ \E k \in 1..(Len(items) - 1) :
         items' = [items EXCEPT ![k] = items[k + 1], ![k + 1] = items[k]]
    /\ UNCHANGED <<fixed_length, position_types, pc, assignments, unassigned_items,
                   item_assignments, sorted_positions, idx, item, assigned, position,
                   position_key, entry, placements, returns, script, session, cfg>>

Next == Call \/ ProcessItem \/ Return \/ ReorderItems

Spec == Init /\ [][Next]_vars

-----------------------------------------------------------------------------
(* SpecScript: runs of the script *)

\* assign_pallets as one call, for the call site at 234: the loop of 292-322
\* from item i on, with the structures built so far.
RECURSIVE AssignFrom(_, _, _, _, _)
AssignFrom(its, sorted, fl, i, acc) ==
    IF i > Len(its) THEN acc
    ELSE LET j == FirstFit(its[i], sorted, fl, 1)
             key == PositionKey(sorted[j])
         IN AssignFrom(its, sorted, fl, NextIndex(i, j > 0, Len(its)),
                IF j > 0
                THEN [acc EXCEPT
                        !.assignments = Increment(@, key),
                        !.item_assignments =
                            Append(@, [sku |-> its[i].sku, assigned_to |-> key])]
                ELSE [acc EXCEPT !.unassigned_items = Append(@, its[i].sku)])

AssignPallets(fl, pts, its) ==
    AssignFrom(its, SortedByMaxHeight(pts), fl, 1,
               [assignments |-> EmptyCounts, unassigned_items |-> <<>>,
                item_assignments |-> <<>>])

\* 95-98, 102: the initial and the padding position types (1.0, 2.0, 0.8 inches)
DefaultPositionTypes ==
    << PositionType("A", "1", In(1), In(1), 1000),
       PositionType("B", "2", In(2), 8, 500) >>
PadPositionType == PositionType("", "1", In(1), In(1), 1000)

\* 161-164, 168: the initial and the padding items
DefaultItems ==
    << Item("SKU001", 8, 6, 5, 300),
       Item("SKU002", In(1), 8, 15, 700) >>
PadItem == Item("SKU000", 8, 6, In(1), 500)

\* What the user types into the two forms.
EnteredPositionTypes ==
    { PositionType("A", "1", In(50), In(40), 500),
      PositionType("B", "2", In(60), In(40), 1000) }
EnteredItems ==
    { Item("SKU001", In(48), In(40), In(46), 500),
      Item("SKU002", In(48), In(40), In(47), 500) }

Buttons == {"none", "save_positions", "save_items", "calculate"}

\* st.session_state as a mapping from the keys present to their values
Put(state, key, value) ==
    [k \in DOMAIN state \cup {key} |-> IF k = key THEN value ELSE state[k]]

\* 101-105, 167-171: append the padding element while too short, then cut
Resize(list, n, pad) ==
    [k \in 1..n |-> IF k <= Len(list) THEN list[k] ELSE pad]

InitScript ==
    /\ fixed_length \in FixedLengths
    /\ position_types = <<>>
    /\ items = <<>>
    /\ pc = "idle"
    /\ assignments = EmptyCounts
    /\ unassigned_items = <<>>
    /\ item_assignments = <<>>
    /\ sorted_positions = <<>>
    /\ idx = 1
    /\ item = NoItem
    /\ assigned = FALSE
    /\ position = NoPosition
    /\ position_key = ""
    /\ entry = [fixed_length |-> fixed_length, position_types |-> position_types,
                items |-> items]
    /\ placements = <<>>
    /\ returns = <<>>
    /\ script = ScriptIdle
    /\ session = SessionIdle
    /\ cfg = CfgIdle

\* A user interaction starts a run of the script from its first line in a new
\* namespace; 67-90 and 156 read the widgets (at most one button is the one
\* clicked).
StartRun ==
    /\ script.at \in {"off", "done"}
    /\ \E fl \in FixedLengths, np \in 1..MaxPositions, ni \in 1..MaxItems,
          b \in Buttons :
         /\ fixed_length' = fl
         /\ script' = [at |-> "tab1",
                       defined |-> FALSE,
                       num_position_types |-> np,
                       num_inventory_items |-> ni,
                       clicked |-> b,
                       outcome |-> "running",
                       shown |-> <<>>]
    /\ UNCHANGED <<position_types, items, pc, assignments, unassigned_items,
                   item_assignments, sorted_positions, idx, item, assigned, position,
                   position_key, entry, placements, returns, session, cfg>>

\* 85-148
Tab1 ==
    /\ script.at = "tab1"
    /\ LET n == script.num_position_types
           current == IF "position_types" \in DOMAIN session
                      THEN session["position_types"] ELSE DefaultPositionTypes
           resized == Resize(current, n, PadPositionType)
       IN IF script.clicked = "save_positions"
          THEN \E updated \in [1..n -> Range(resized) \cup EnteredPositionTypes] :
                   session' = Put(Put(session, "position_types", updated),
                                  "pallet_positions", updated)
          ELSE session' = Put(session, "position_types", resized)
    /\ script' = [script EXCEPT !.at = "tab2"]
    /\ UNCHANGED <<assignVars, cfg>>

\* 151-216
Tab2 ==
    /\ script.at = "tab2"
    /\ LET n == script.num_inventory_items
           current == IF "inventory_items_list" \in DOMAIN session
                      THEN session["inventory_items_list"] ELSE DefaultItems
           resized == Resize(current, n, PadItem)
       IN IF script.clicked = "save_items"
          THEN \E updated \in [1..n -> Range(resized) \cup EnteredItems] :
                   session' = Put(Put(session, "inventory_items_list", updated),
                                  "inventory_items", updated)
          ELSE session' = Put(session, "inventory_items_list", resized)
    /\ script' = [script EXCEPT !.at = "tab3"]
    /\ UNCHANGED <<assignVars, cfg>>

\* 242-255: one count per position type of the catalog, then the unassigned items
Display(pts, its, result) ==
    [kind |-> "counts",
     counts |-> [k \in DOMAIN pts |->
                    CountAt(result.assignments, PositionKey(pts[k]))],
     unassigned |-> SelectSeq(its,
                        LAMBDA it : it.sku \in Range(result.unassigned_items))]

\* 219-262.  The name assign_pallets is looked up when the call at 234 is
\* evaluated; an unbound name raises NameError, which ends the run.
Tab3 ==
    /\ script.at = "tab3"
    /\ IF script.clicked # "calculate"
       THEN script' = [script EXCEPT !.at = "footer", !.shown = [kind |-> "info"]]
       ELSE IF \/ "position_types" \notin DOMAIN session
               \/ "inventory_items_list" \notin DOMAIN session
       THEN script' = [script EXCEPT !.at = "footer", !.shown = [kind |-> "error"]]
       ELSE IF ~script.defined
       THEN script' = [script EXCEPT !.at = "done", !.outcome = "NameError"]
       ELSE script' = [script EXCEPT
                          !.at = "footer",
                          !.shown = Display(session["position_types"],
                                            session["inventory_items_list"],
                                            AssignPallets(fixed_length,
                                                session["position_types"],
                                                session["inventory_items_list"]))]
    /\ UNCHANGED <<assignVars, session, cfg>>

\* 264-268: the footer, then the `def` statement binds assign_pallets; the run ends.
Footer ==
    /\ script.at = "footer"
    /\ script' = [script EXCEPT !.at = "done", !.defined = TRUE, !.outcome = "ok"]
    /\ UNCHANGED <<assignVars, session, cfg>>

NextScript == StartRun \/ Tab1 \/ Tab2 \/ Tab3 \/ Footer

SpecScript == InitScript /\ [][NextScript]_vars

-----------------------------------------------------------------------------
(* SpecConfigure: the Pallet Configurator, after spec.md 4.1 *)

MaxTotalBoxes == 35     \* largest box count tried, besides the 100 of Scenario 1

Box(sku, length, width, height, weight, total_boxes) ==
    [sku |-> sku, length |-> length, width |-> width, height |-> height,
     weight |-> weight, total_boxes |-> total_boxes]

BoxShapes ==
    { Box("SKU001", In(12), In(10), In(10), 50, 0),     \* Scenario 1
      Box("SKU002", In(60), In(60), In(10), 50, 0),     \* Scenario 2: footprint too large
      Box("SKU003", In(40), In(48), In(20), 600, 0),    \* one per layer, rotated
      Box("SKU004", In(12), In(10), In(57), 50, 0) }    \* too tall for every position

BoxCounts == (0..MaxTotalBoxes) \cup {100}

ConfigurePositions ==
    { PositionType("A", "1", In(50), In(40), 2000),     \* Scenario 1
      PositionType("B", "2", In(60), In(40), 1000) }

PalletLength == In(48)
PalletWidth == In(40)

Min2(a, b) == IF a <= b THEN a ELSE b
Max2(a, b) == IF a >= b THEN a ELSE b

\* step 1: floor(pallet_dim_a / box_dim_a) * floor(pallet_dim_b / box_dim_b)
OrientationCount(pa, pb, ba, bb) == (pa \div ba) * (pb \div bb)

BoxesPerLayer(box, pl, pw) ==
    Max2(OrientationCount(pl, pw, box.length, box.width),
         OrientationCount(pl, pw, box.width, box.length))

\* step 2: the layer count achievable at one position type, 0 when infeasible
LayersAt(box, bpl, p, c) ==
    IF /\ box.height <= p.max_height - c
       /\ bpl * box.weight <= p.weight_capacity
    THEN Min2((p.max_height - c) \div box.height,
              p.weight_capacity \div (bpl * box.weight))
    ELSE 0

RECURSIVE MaxLayers(_, _, _, _)
MaxLayers(box, bpl, catalog, c) ==
    IF catalog = <<>> THEN 0
    ELSE Max2(LayersAt(box, bpl, catalog[Len(catalog)], c),
              MaxLayers(box, bpl, SubSeq(catalog, 1, Len(catalog) - 1), c))

\* step 3: min(boxes_per_pallet, remaining)
AlwaysFullPallet(bpp, remaining) == bpp

TakeBoxes(bpp, remaining) == Min2(bpp, remaining)

\* step 3: ceil(boxes_on_pallet / boxes_per_layer)
LayersNeeded(take, bpl) == (take + bpl - 1) \div bpl

Pallet(box, pl, pw, take, bpl) ==
    [sku |-> box.sku, length |-> pl, width |-> pw,
     height |-> LayersNeeded(take, bpl) * box.height,
     weight |-> take * box.weight,
     boxes |-> take]

InitConfigure ==
    /\ fixed_length \in FixedLengths
    /\ position_types = <<>>
    /\ items = <<>>
    /\ pc = "idle"
    /\ assignments = EmptyCounts
    /\ unassigned_items = <<>>
    /\ item_assignments = <<>>
    /\ sorted_positions = <<>>
    /\ idx = 1
    /\ item = NoItem
    /\ assigned = FALSE
    /\ position = NoPosition
    /\ position_key = ""
    /\ entry = [fixed_length |-> fixed_length, position_types |-> position_types,
                items |-> items]
    /\ placements = <<>>
    /\ returns = <<>>
    /\ script = ScriptIdle
    /\ session = SessionIdle
    /\ \E shape \in BoxShapes, n \in BoxCounts,
          catalog \in SeqsUpTo(ConfigurePositions, MaxPositions) :
         cfg = [at |-> "start",
                box |-> [shape EXCEPT !.total_boxes = n],
                pallet_length |-> PalletLength,
                pallet_width |-> PalletWidth,
                position_types |-> catalog,
                clearance |-> In(4),
                boxes_per_layer |-> 0,
                max_layers |-> 0,
                remaining |-> 0,
                pallets |-> <<>>,
                result |-> "running"]

\* steps 1 and 2: the plan, or NONE
ConfigurePlan ==
    /\ cfg.at = "start"
    /\ LET bpl == BoxesPerLayer(cfg.box, cfg.pallet_length, cfg.pallet_width)
           ml == IF bpl = 0 THEN 0
                 ELSE MaxLayers(cfg.box, bpl, cfg.position_types, cfg.clearance)
       IN IF bpl = 0 \/ ml < 1
          THEN cfg' = [cfg EXCEPT !.at = "done", !.result = "NONE",
                                  !.boxes_per_layer = bpl, !.max_layers = ml]
          ELSE cfg' = [cfg EXCEPT !.at = "distribute",
                                  !.boxes_per_layer = bpl, !.max_layers = ml,
                                  !.remaining = cfg.box.total_boxes]
    /\ UNCHANGED <<assignVars, script, session>>

\* step 3: one iteration, one pallet
EmitPallet ==
    /\ cfg.at = "distribute"
    /\ cfg.remaining > 0
    /\ LET take == TakeBoxes(cfg.boxes_per_layer * cfg.max_layers, cfg.remaining)
       IN cfg' = [cfg EXCEPT
                    !.pallets = Append(@, Pallet(cfg.box, cfg.pallet_length,
                                                 cfg.pallet_width, take,
                                                 cfg.boxes_per_layer)),
                    !.remaining = @ - take]
    /\ UNCHANGED <<assignVars, script, session>>

\* step 3: no boxes remain
ConfigureReturn ==
    /\ cfg.at = "distribute"
    /\ cfg.remaining = 0
    /\ cfg' = [cfg EXCEPT !.at = "done", !.result = "pallets"]
    /\ UNCHANGED <<assignVars, script, session>>

NextConfigure == ConfigurePlan \/ EmitPallet \/ ConfigureReturn

SpecConfigure == InitConfigure /\ [][NextConfigure]_vars

-----------------------------------------------------------------------------
(* Vocabulary of the properties of the Position Assigner *)

\* The four constraints as spec.md 4.2 states them, for a clearance c.
SatisfiesAll(it, p, fl, c) ==
    /\ it.height <= p.max_height - c
    /\ it.weight <= p.weight_capacity
    /\ it.width <= p.width_capacity
    /\ it.length <= fl

FitsSomewhere(it, catalog, fl) ==
    \E p \in Range(catalog) : SatisfiesAll(it, p, fl, In(4))

Occurrences(s, x) == Cardinality({k \in DOMAIN s : s[k] = x})

IsPermutation(s, t) ==
    /\ Len(s) = Len(t)
    /\ \A x \in Range(s) \cup Range(t) : Occurrences(s, x) = Occurrences(t, x)

Skus(its) == [k \in DOMAIN its |-> its[k].sku]

\* What became of an item: its value, and the key it went to ("" when unassigned).
Outcome(pl) ==
    [item |-> pl.item,
     assigned_to |-> IF pl.assigned THEN PositionKey(pl.position) ELSE ""]

Outcomes(pls) == [k \in DOMAIN pls |-> Outcome(pls[k])]

RECURSIVE SumCounts(_)
SumCounts(counts) ==
    IF DOMAIN counts = {} THEN 0
    ELSE LET k == CHOOSE x \in DOMAIN counts : TRUE
         IN counts[k] + SumCounts([y \in DOMAIN counts \ {k} |-> counts[y]])

Smallest(S) == CHOOSE x \in S : \A y \in S : x <= y

-----------------------------------------------------------------------------
(* C1 *)

\* C1: first-fit by ascending max_height. For every item that got an assignment
\* record, the chosen position type is one of the catalog and no position type of
\* the catalog with a strictly smaller max_height satisfies all four constraints
\* for the item; in a catalog of a 50 and a 60 position type that both accept the
\* item, in either order, the item goes to the 50 one.
C1_FirstFitAscendingHeight ==
    \A k \in DOMAIN placements :
        LET pl == placements[k] IN
        pl.assigned =>
            /\ pl.position \in Range(position_types)
            /\ \A p \in Range(position_types) :
                   p.max_height < pl.position.max_height
                       => ~SatisfiesAll(pl.item, p, fixed_length, In(4))
            /\ ( /\ Len(position_types) = 2
                 /\ {position_types[1].max_height, position_types[2].max_height} = {In(50), In(60)}
                 /\ \A p \in Range(position_types) :
                        SatisfiesAll(pl.item, p, fixed_length, In(4)) )
               => pl.position.max_height = In(50)

\* The 60 position type is first in the catalog, the 50 one second, both accept
\* the item, and the item was assigned.
C1_Witness ==
    /\ Len(position_types) = 2
    /\ position_types[1].max_height = In(60)
    /\ position_types[2].max_height = In(50)
    /\ \E k \in DOMAIN placements :
           /\ placements[k].assigned
           /\ \A p \in Range(position_types) :
                  SatisfiesAll(placements[k].item, p, fixed_length, In(4))

-----------------------------------------------------------------------------
(* C2 *)

\* Clearance values a caller may want to supply (spec.md 6: default 4.0).
ClearanceValues == {In(0), In(4), In(6)}

\* C2: every assignment record pairs an item with a position type that satisfies
\* all four constraints for it, whatever clearance value c is supplied.
C2_ConstraintsForEveryClearance ==
    \A c \in ClearanceValues :
        \A k \in DOMAIN placements :
            placements[k].assigned =>
                SatisfiesAll(placements[k].item, placements[k].position, fixed_length, c)

-----------------------------------------------------------------------------
(* C3 *)

\* The items `its` are classified exactly once each, in input order: the skus of
\* those that fit nowhere make up `un`, the others have one record each in `ia`.
Classified(its, catalog, fl, ia, un) ==
    /\ un = Skus(SelectSeq(its, LAMBDA it : ~FitsSomewhere(it, catalog, fl)))
    /\ [k \in DOMAIN ia |-> ia[k].sku]
           = Skus(SelectSeq(its, LAMBDA it : FitsSomewhere(it, catalog, fl)))
    /\ Len(ia) + Len(un) = Len(its)

\* C3: for every item list and every catalog, the empty one included, the call
\* always has a next step until it returns, and each input item is classified
\* exactly once: its sku is in the unassigned list iff no position type of the
\* catalog satisfies all four constraints, otherwise it has exactly one record;
\* the items after an unassignable one are still processed.
C3_EachItemClassifiedOnce ==
    /\ pc = "loop" =>
           /\ idx \in 1..(Len(items) + 1)
           /\ Classified(SubSeq(items, 1, idx - 1), position_types, fixed_length,
                         item_assignments, unassigned_items)
    /\ \A r \in Range(returns) :
           Classified(r.given.items, r.given.position_types, r.given.fixed_length,
                      r.item_assignments, r.unassigned_items)

\* A call returned with an unassignable first item and an assigned second item.
C3_Witness ==
    \E r \in Range(returns) :
        /\ Len(r.given.items) = 2
        /\ ~FitsSomewhere(r.given.items[1], r.given.position_types, r.given.fixed_length)
        /\ r.unassigned_items = <<r.given.items[1].sku>>
        /\ Len(r.item_assignments) = 1

-----------------------------------------------------------------------------
(* C4 *)

OtherThreeHold(it, p, fl) ==
    /\ it.weight <= p.weight_capacity
    /\ it.width <= p.width_capacity
    /\ it.length <= fl

\* C4 as stated: an item of height 46 is rejected by a position type of
\* max_height 50, and is unassigned when no other position type qualifies.
C4_Height46Rejected ==
    \A k \in DOMAIN placements :
        LET pl == placements[k] IN
        pl.item.height = In(46) =>
            /\ ~(pl.assigned /\ pl.position.max_height = In(50))
            /\ (\A p \in Range(position_types) :
                    p.max_height # In(50) => ~SatisfiesAll(pl.item, p, fixed_length, In(4)))
               => ~pl.assigned

\* C4 amended: 46 <= 50 - 4 holds, so a position type of max_height 50 whose other
\* three constraints hold accepts an item of height 46 (the item is assigned at a
\* max_height of at most 50); an item taller than 46 is rejected by every position
\* type of max_height 50, and is unassigned when no other position type qualifies.
C4_ClearanceBoundary ==
    \A k \in DOMAIN placements :
        LET pl == placements[k] IN
        /\ ( /\ pl.item.height = In(46)
             /\ \E p \in Range(position_types) :
                    p.max_height = In(50) /\ OtherThreeHold(pl.item, p, fixed_length) )
           => (pl.assigned /\ pl.position.max_height <= In(50))
        /\ pl.item.height > In(46) =>
            /\ ~(pl.assigned /\ pl.position.max_height = In(50))
            /\ (\A p \in Range(position_types) :
                    p.max_height # In(50) => ~SatisfiesAll(pl.item, p, fixed_length, In(4)))
               => ~pl.assigned

\* Both cases in one call: an item of height 46 placed into a 50 position type and
\* an item of height 47 that the same catalog leaves unassigned.
C4_Witness ==
    /\ \E k \in DOMAIN placements :
           /\ placements[k].item.height = In(46)
           /\ placements[k].assigned
           /\ placements[k].position.max_height = In(50)
    /\ \E k \in DOMAIN placements :
           /\ placements[k].item.height = In(47)
           /\ OtherThreeHold(placements[k].item, position_types[1], fixed_length)
           /\ ~placements[k].assigned

-----------------------------------------------------------------------------
(* C6 *)

TiesAt(h, it) ==
    {j \in DOMAIN position_types :
        /\ position_types[j].max_height = h
        /\ SatisfiesAll(it, position_types[j], fixed_length, In(4))}

\* C6: ties are broken by catalog order. When more than one position type of one
\* max_height satisfies all four constraints for an item and no position type of a
\* smaller max_height does, the item is assigned to the one earliest in the catalog.
C6_TiesKeepCatalogOrder ==
    \A k \in DOMAIN placements :
        LET pl == placements[k] IN
        \A h \in {p.max_height : p \in Range(position_types)} :
            ( /\ Cardinality(TiesAt(h, pl.item)) > 1
              /\ \A p \in Range(position_types) :
                     p.max_height < h => ~SatisfiesAll(pl.item, p, fixed_length, In(4)) )
            => /\ pl.assigned
               /\ pl.position = position_types[Smallest(TiesAt(h, pl.item))]

\* Two different position types of one max_height both accept a processed item.
C6_Witness ==
    \E k \in DOMAIN placements :
        /\ Len(position_types) = 2
        /\ position_types[1] # position_types[2]
        /\ TiesAt(position_types[1].max_height, placements[k].item) = {1, 2}
        /\ placements[k].position = position_types[1]

-----------------------------------------------------------------------------
(* C7 *)

\* C7: the decisions are independent across items. Two calls with the same catalog
\* and fixed_length whose item lists are permutations of each other return the same
\* position_counts, and every item has the same outcome (the same position key, or
\* unassigned) in both.
C7_ItemOrderIndependent ==
    \A a \in DOMAIN returns : \A b \in DOMAIN returns :
        ( /\ IsPermutation(returns[a].given.items, returns[b].given.items)
          /\ returns[a].given.position_types = returns[b].given.position_types
          /\ returns[a].given.fixed_length = returns[b].given.fixed_length )
        => /\ returns[a].assignments = returns[b].assignments
           /\ IsPermutation(Outcomes(returns[a].placements),
                            Outcomes(returns[b].placements))
           /\ Len(returns[a].placements) = Len(returns[a].given.items)

\* Two calls on different orders of the same items, one of them unassignable.
C7_Witness ==
    /\ Len(returns) = 2
    /\ returns[1].given.items # returns[2].given.items
    /\ Len(returns[2].unassigned_items) = 1
    /\ Len(returns[2].item_assignments) = 1
    /\ returns[1].item_assignments = returns[2].item_assignments

-----------------------------------------------------------------------------
(* C8 *)

\* C8: two calls given identical fixed_length, position_types and items return
\* identical position_counts, item_assignments and unassigned lists, and a call
\* leaves its arguments as it was given them.
C8_SameInputsSameOutputs ==
    /\ \A a \in DOMAIN returns : \A b \in DOMAIN returns :
           returns[a].given = returns[b].given
           => /\ returns[a].assignments = returns[b].assignments
              /\ returns[a].item_assignments = returns[b].item_assignments
              /\ returns[a].unassigned_items = returns[b].unassigned_items
    /\ \A r \in Range(returns) :
           /\ r.position_types = r.given.position_types
           /\ r.items = r.given.items
           /\ r.fixed_length = r.given.fixed_length
    /\ pc = "loop" => /\ position_types = entry.position_types
                      /\ items = entry.items

\* Two calls on identical inputs, with something assigned and something not.
C8_Witness ==
    /\ Len(returns) = 2
    /\ returns[1].given = returns[2].given
    /\ returns[2].item_assignments # <<>>
    /\ returns[2].unassigned_items # <<>>

-----------------------------------------------------------------------------
(* C9 *)

PairsDistinct(catalog) ==
    \A i \in DOMAIN catalog : \A j \in DOMAIN catalog :
        i # j => <<catalog[i].aisle, catalog[i].level>>
                     # <<catalog[j].aisle, catalog[j].level>>

\* The counts are the numbers of records per key, absent keys have no record,
\* and at the return counts and unassigned items add up to the input.
C9_CountsMatchRecords ==
    /\ \A key \in DOMAIN assignments :
           /\ assignments[key] >= 1
           /\ assignments[key] =
                  Cardinality({k \in DOMAIN item_assignments :
                                   item_assignments[k].assigned_to = key})
    /\ \A k \in DOMAIN item_assignments :
           item_assignments[k].assigned_to \in DOMAIN assignments
    /\ \A r \in Range(returns) :
           SumCounts(r.assignments) + Len(r.unassigned_items) = Len(r.given.items)

\* C9: the accounting invariant, and with pairwise distinct (aisle, level) pairs
\* the count under a position type's key is the number of items placed into that
\* position type.
C9_Accounting ==
    /\ C9_CountsMatchRecords
    /\ PairsDistinct(position_types) =>
           \A j \in DOMAIN position_types :
               CountAt(assignments, PositionKey(position_types[j])) =
                   Cardinality({k \in DOMAIN placements :
                                    /\ placements[k].assigned
                                    /\ placements[k].position = position_types[j]})

-----------------------------------------------------------------------------
(* C10 *)

\* C10: a run in which Calculate is pressed and both lists are in the session
\* state reaches the call of assign_pallets after its definition was executed, so
\* it ends with the position counts displayed and not with an undefined name.
C10_CalculateShowsCounts ==
    ( /\ script.at = "done"
      /\ script.clicked = "calculate"
      /\ "position_types" \in DOMAIN session
      /\ "inventory_items_list" \in DOMAIN session )
    => /\ script.outcome = "ok"
       /\ script.shown.kind = "counts"

-----------------------------------------------------------------------------
(* C5 *)

RECURSIVE SumBoxes(_)
SumBoxes(pallets) ==
    IF pallets = <<>> THEN 0
    ELSE pallets[Len(pallets)].boxes + SumBoxes(SubSeq(pallets, 1, Len(pallets) - 1))

\* C5: for a packable box the pallets conserve the box count: what is on the
\* pallets and what remains add up to total_boxes throughout, nothing remains at
\* the end, every pallet holds between 1 and boxes_per_layer * max_layers boxes,
\* and total_boxes = 0 gives an empty pallet sequence, not NONE.
C5_BoxCountConserved ==
    /\ cfg.at \in {"distribute", "done"} /\ cfg.result # "NONE" =>
           /\ cfg.remaining >= 0
           /\ SumBoxes(cfg.pallets) + cfg.remaining = cfg.box.total_boxes
           /\ \A k \in DOMAIN cfg.pallets :
                  /\ cfg.pallets[k].boxes >= 1
                  /\ cfg.pallets[k].boxes <= cfg.boxes_per_layer * cfg.max_layers
    /\ cfg.at = "done" /\ cfg.result # "NONE" =>
           /\ cfg.result = "pallets"
           /\ SumBoxes(cfg.pallets) = cfg.box.total_boxes
    /\ ( /\ cfg.at = "done"
         /\ cfg.box.total_boxes = 0
         /\ cfg.boxes_per_layer >= 1
         /\ cfg.max_layers >= 1 )
       => (cfg.result = "pallets" /\ cfg.pallets = <<>>)

\* Scenario 1 has run to its end: 100 boxes on pallets of 32, 32, 32 and 4.
C5_Witness ==
    /\ cfg.at = "done"
    /\ cfg.result = "pallets"
    /\ cfg.box.total_boxes = 100
    /\ [k \in DOMAIN cfg.pallets |-> cfg.pallets[k].boxes] = <<32, 32, 32, 4>>
    /\ [k \in DOMAIN cfg.pallets |-> cfg.pallets[k].height]
           = <<In(20), In(20), In(20), In(10)>>

=============================================================================
